---- MODULE Spec2Model ----
(***************************************************************************)
(* BetEstimate v5.5.5 (src/server.js, second program text, lines 499-1478): *)
(* the prediction engine -- seedOf, leagueBaseGpm, expectedGoalsAdvanced,   *)
(* probs1X2, sharpen3, choiceFrom -- as operators, the row builder's use of  *)
(* them as a state machine, and the server around it: the cache, the        *)
(* refreshes that fill it and GET /api/today.                               *)
(*                                                                          *)
(* Numbers.  A JavaScript number is modelled as an integer holding the      *)
(* value in millionths (Scale), so 0.08 is 80000 and 1/3 is 333333; the     *)
(* value NaN is the integer NaN below, and every comparison and every       *)
(* arithmetic step that can meet it goes through the Js* operators, which   *)
(* give NaN the meaning IEEE-754 gives it (comparisons false, arithmetic    *)
(* NaN).  Products and quotients are computed in two halves so that no      *)
(* intermediate value leaves the 32-bit integers.                           *)
(***************************************************************************)
EXTENDS Integers, Sequences, FiniteSets, TLC

VARIABLES
  homeName, awayName, league,  \* the fixture a prediction is made for
  lam, pick,                   \* { lh, la } and ch of the row builder
  pc,                          \* the position of the running code
  calls,                       \* history: what the calls so far returned
  aliasTable, seedTable,       \* the contents of ALIAS and SEED_ELO
  cache, today, inflight,      \* CACHE, the local date, the running refreshes
  res,                         \* the response sent last
  parsed                       \* history: the array out of the last refresh

fixture == <<homeName, awayName, league>>
tables == <<aliasTable, seedTable>>
server == <<cache, today, inflight, res, parsed>>

vars == <<homeName, awayName, league, lam, pick, pc, calls, aliasTable,
          seedTable, cache, today, inflight, res, parsed>>

----------------------------------------------------------------------------
(* Fixed-point arithmetic                                                   *)

Half == 10^3
Scale == Half * Half

\* The value NaN of a JavaScript number.
NaN == -2147483647

IsNaN(x) == x = NaN

\* a < b, a >= b and a > b of JavaScript: false when either side is NaN.
JsLt(a, b) == ~IsNaN(a) /\ ~IsNaN(b) /\ a < b
JsGe(a, b) == ~IsNaN(a) /\ ~IsNaN(b) /\ a >= b
JsGt(a, b) == ~IsNaN(a) /\ ~IsNaN(b) /\ a > b

\* a - b of JavaScript numbers.
JsSub(a, b) == IF IsNaN(a) \/ IsNaN(b) THEN NaN ELSE a - b

\* a * b for a, b >= 0 in millionths (rounded to nearest).
MulPos(a, b) ==
  LET ah == a \div Half
      al == a % Half
      bh == b \div Half
      bl == b % Half
      r  == Half \div 2
  IN  ah * bh + (ah * bl + al * bh + (al * bl + r) \div Half + r) \div Half

Abs(a) == IF a < 0 THEN 0 - a ELSE a

\* a * b in millionths, any signs.
Mul(a, b) ==
  IF (a < 0) = (b < 0) THEN MulPos(Abs(a), Abs(b)) ELSE 0 - MulPos(Abs(a), Abs(b))

\* a / b for a >= 0 and 0 < b, in millionths (rounded down), by long division.
DivPos(a, b) ==
  LET q  == a \div b
      r0 == a % b
      d1 == (r0 * Half) \div b
      r1 == (r0 * Half) % b
      d2 == (r1 * Half) \div b
  IN  q * Scale + d1 * Half + d2

\* Math.max and Math.min of two numbers, either of which may be NaN.
MathMax(a, b) == IF IsNaN(a) \/ IsNaN(b) THEN NaN ELSE IF a >= b THEN a ELSE b
MathMin(a, b) == IF IsNaN(a) \/ IsNaN(b) THEN NaN ELSE IF a <= b THEN a ELSE b

\* e^-n for whole n, in millionths.
ExpNegWhole(n) ==
  CASE n = 0 -> 1000000
    [] n = 1 -> 367879
    [] n = 2 -> 135335
    [] n = 3 -> 49787
    [] n = 4 -> 18316
    [] n = 5 -> 6738
    [] n = 6 -> 2479
    [] n = 7 -> 912
    [] n = 8 -> 335
    [] n = 9 -> 123
    [] OTHER -> 0

\* e^-f for 0 <= f < 1: the Taylor series of order ExpTerms in Horner form,
\* 1 - f/1 (1 - f/2 (1 - f/3 ( ... ))).
ExpTerms == 12

RECURSIVE ExpHorner(_, _)
ExpHorner(f, k) ==
  IF k > ExpTerms THEN Scale
  ELSE Scale - MulPos(f, ExpHorner(f, k + 1)) \div k

\* Math.exp(-x) for x >= 0.
ExpNeg(x) == MulPos(ExpNegWhole(x \div Scale), ExpHorner(x % Scale, 1))

\* Math.tanh(x) = sign(x) (1 - e^-2|x|) / (1 + e^-2|x|).
Tanh(x) ==
  LET e == ExpNeg(2 * Abs(x))
      t == DivPos(Scale - e, Scale + e)
  IN  IF x < 0 THEN 0 - t ELSE t

\* p^n for whole n >= 0 and p >= 0.
RECURSIVE IntPow(_, _)
IntPow(p, n) == IF n = 0 THEN Scale ELSE MulPos(IntPow(p, n - 1), p)

\* The fourth root of p in [0, 1]: the largest r with r^4 <= p, by bisection.
RECURSIVE Root4Search(_, _, _)
Root4Search(lo, hi, p) ==
  IF hi - lo <= 1 THEN lo
  ELSE LET mid == (lo + hi) \div 2
           sq  == MulPos(mid, mid)
       IN  IF MulPos(sq, sq) <= p THEN Root4Search(mid, hi, p)
           ELSE Root4Search(lo, mid, p)

Root4(p) == IF p >= Scale THEN Scale ELSE Root4Search(0, Scale, p)

\* Math.pow(p, tau) for p in [0, 1] and tau a multiple of 1/4:
\* p^whole(tau) * (p^(1/4))^(4 frac(tau)).
PowTau(p, tau) ==
  LET whole    == tau \div Scale
      quarters == ((tau % Scale) * 4) \div Scale
  IN  IF quarters = 0 THEN IntPow(p, whole)
      ELSE MulPos(IntPow(p, whole), IntPow(Root4(p), quarters))

----------------------------------------------------------------------------
(* Strings: String.prototype.toLowerCase, replace, trim, includes           *)

CharAt(s, i) == SubSeq(s, i, i)

UpperLetters == "ABCDEFGHIJKLMNOPQRSTUVWXYZ"
LowerLetters == "abcdefghijklmnopqrstuvwxyz"
DigitChars == "0123456789"

\* The position of character c in the string abc, 0 when it is not there.
IndexIn(c, abc) ==
  LET hits == {i \in 1..Len(abc) : CharAt(abc, i) = c}
  IN  IF hits = {} THEN 0 ELSE CHOOSE i \in hits : TRUE

LowerChar(c) ==
  LET i == IndexIn(c, UpperLetters)
  IN  IF i = 0 THEN c ELSE CharAt(LowerLetters, i)

\* s.toLowerCase()
RECURSIVE toLowerCase(_)
toLowerCase(s) ==
  IF Len(s) = 0 THEN ""
  ELSE LowerChar(CharAt(s, 1)) \o toLowerCase(SubSeq(s, 2, Len(s)))

\* c matches [a-z0-9]
IsLowerAlnum(c) == IndexIn(c, LowerLetters) > 0 \/ IndexIn(c, DigitChars) > 0

\* s.replace(/[^a-z0-9]+/g, ' '): every maximal run of characters outside
\* [a-z0-9] becomes one space; inRun says the previous character was in a run.
RECURSIVE ReplaceRuns(_, _)
ReplaceRuns(s, inRun) ==
  IF Len(s) = 0 THEN ""
  ELSE LET c    == CharAt(s, 1)
           rest == SubSeq(s, 2, Len(s))
       IN  IF IsLowerAlnum(c) THEN c \o ReplaceRuns(rest, FALSE)
           ELSE IF inRun THEN ReplaceRuns(rest, TRUE)
           ELSE " " \o ReplaceRuns(rest, TRUE)

\* s.trim() for a string whose only white space is the space character.
RECURSIVE trim(_)
trim(s) ==
  IF Len(s) = 0 THEN ""
  ELSE IF CharAt(s, 1) = " " THEN trim(SubSeq(s, 2, Len(s)))
  ELSE IF CharAt(s, Len(s)) = " " THEN trim(SubSeq(s, 1, Len(s) - 1))
  ELSE s

\* s.includes(pat)
includes(s, pat) ==
  \E i \in 1..(Len(s) - Len(pat) + 1) : SubSeq(s, i, i + Len(pat) - 1) = pat

----------------------------------------------------------------------------
(* Team strength: normTeam, ALIAS, canonicalKey, SEED_ELO, seedOf           *)

normTeam(s) == trim(ReplaceRuns(toLowerCase(s), FALSE))

ALIAS ==
  << <<"paris saint germain", "psg">>, <<"paris saint germain fc", "psg">>,
     <<"manchester city fc", "manchester city">>,
     <<"manchester united fc", "manchester united">>,
     <<"fc barcelona", "barcelona">>, <<"fc bayern munich", "bayern munich">>,
     <<"fc internazionale milano", "inter">>, <<"fc internazionale", "inter">>,
     <<"juventus fc", "juventus">>, <<"ac milan", "milan">>,
     <<"atletico de madrid", "atletico madrid">>, <<"ssc napoli", "napoli">>,
     <<"as roma", "roma">>, <<"tottenham hotspur", "tottenham">>,
     <<"fenerbahce istanbul", "fenerbahce">>, <<"galatasaray sk", "galatasaray">>,
     <<"besiktas jk", "besiktas">>,
     <<"arsenal fc", "arsenal">>, <<"chelsea fc", "chelsea">>,
     <<"liverpool fc", "liverpool">>,
     <<"real madrid cf", "real madrid">>, <<"borussia dortmund", "dortmund">>,
     <<"atletico madrid", "atletico madrid">>, <<"sevilla fc", "sevilla">>,
     <<"valencia cf", "valencia">>,
     <<"rcd mallorca", "mallorca">>, <<"athletic bilbao", "athletic bilbao">>,
     <<"real betis", "betis">>,
     <<"rsc anderlecht", "anderlecht">>, <<"olympique lyonnais", "lyon">>,
     <<"olympique marseille", "marseille">>,
     <<"as monaco", "monaco">>, <<"lille osc", "lille">>,
     <<"ajax amsterdam", "ajax">>, <<"psv eindhoven", "psv">>,
     <<"fc porto", "porto">>, <<"sporting lisbon", "sporting cp">>,
     <<"sl benfica", "benfica">> >>

\* ALIAS.get(n) || n : the value of the entry for n when there is one (every
\* value of the table is a non-empty string, hence truthy), n otherwise.
AliasGetOr(n) ==
  LET hits == {i \in 1..Len(aliasTable) : aliasTable[i][1] = n}
  IN  IF hits = {} THEN n ELSE aliasTable[CHOOSE i \in hits : TRUE][2]

canonicalKey(name) == AliasGetOr(normTeam(name))

SEED_ELO ==
  << <<"psg", 1850>>, <<"paris saint germain", 1850>>, <<"real madrid", 1850>>,
     <<"barcelona", 1820>>,
     <<"manchester city", 1880>>, <<"liverpool", 1820>>, <<"arsenal", 1800>>,
     <<"chelsea", 1750>>,
     <<"manchester united", 1760>>, <<"bayern munich", 1900>>, <<"inter", 1820>>,
     <<"juventus", 1800>>,
     <<"milan", 1780>>, <<"atletico madrid", 1800>>, <<"napoli", 1780>>,
     <<"roma", 1740>>, <<"tottenham", 1760>>,
     <<"galatasaray", 1700>>, <<"fenerbahce", 1680>>, <<"besiktas", 1650>>,
     <<"trabzonspor", 1620>>,
     <<"dortmund", 1780>>, <<"sevilla", 1720>>, <<"valencia", 1700>>,
     <<"betis", 1720>>, <<"lyon", 1720>>,
     <<"marseille", 1730>>, <<"monaco", 1740>>, <<"lille", 1710>>,
     <<"ajax", 1750>>, <<"psv", 1740>>,
     <<"porto", 1760>>, <<"benfica", 1770>>, <<"sporting cp", 1750>> >>

\* What a property read of a plain object can give besides a number:
\* undefined, or a member inherited from Object.prototype (a function, or
\* the prototype object itself), which is neither null nor undefined.
Undefined == -1
InheritedMember == -2

\* The names every plain object inherits from Object.prototype.
ObjectPrototypeKeys ==
  {"constructor", "hasOwnProperty", "isPrototypeOf", "propertyIsEnumerable",
   "toLocaleString", "toString", "valueOf", "__proto__", "__defineGetter__",
   "__defineSetter__", "__lookupGetter__", "__lookupSetter__"}

\* SEED_ELO[k]: the own entry, else the inherited member, else undefined.
SeedGet(k) ==
  LET hits == {i \in 1..Len(seedTable) : seedTable[i][1] = k}
  IN  IF hits # {} THEN seedTable[CHOOSE i \in hits : TRUE][2]
      ELSE IF k \in ObjectPrototypeKeys THEN InheritedMember
      ELSE Undefined

DefaultRating == 1500

\* SEED_ELO[k] ?? SEED_ELO[normTeam(name)] ?? 1500
seedOf(name) ==
  LET k  == canonicalKey(name)
      v1 == SeedGet(k)
      v2 == SeedGet(normTeam(name))
  IN  IF v1 # Undefined THEN v1
      ELSE IF v2 # Undefined THEN v2
      ELSE DefaultRating

----------------------------------------------------------------------------
(* League baseline: leagueBaseGpm                                           *)

\* The same tests with 'bundesliga' moved ahead of 'premier'.
leagueBaseGpm_reordered(lg) ==
  LET k == toLowerCase(lg)
  IN  IF includes(k, "super lig") \/ includes(k, "süper lig") THEN 2700000
      ELSE IF includes(k, "bundesliga") THEN 3100000
      ELSE IF includes(k, "premier") THEN 2900000
      ELSE IF includes(k, "la liga") THEN 2600000
      ELSE IF includes(k, "serie a") THEN 2500000
      ELSE IF includes(k, "ligue 1") THEN 2750000
      ELSE IF includes(k, "eredivisie") THEN 3000000
      ELSE IF includes(k, "primeira") THEN 2500000
      ELSE IF includes(k, "champions league") THEN 3000000
      ELSE IF includes(k, "europa league") THEN 2800000
      ELSE IF includes(k, "conference league") THEN 2700000
      ELSE 2650000

leagueBaseGpm(lg) ==
  LET k == toLowerCase(lg)
  IN  IF includes(k, "super lig") \/ includes(k, "süper lig") THEN 2700000
      ELSE IF includes(k, "premier") THEN 2900000
      ELSE IF includes(k, "la liga") THEN 2600000
      ELSE IF includes(k, "bundesliga") THEN 3100000
      ELSE IF includes(k, "serie a") THEN 2500000
      ELSE IF includes(k, "ligue 1") THEN 2750000
      ELSE IF includes(k, "eredivisie") THEN 3000000
      ELSE IF includes(k, "primeira") THEN 2500000
      ELSE IF includes(k, "champions league") THEN 3000000
      ELSE IF includes(k, "europa league") THEN 2800000
      ELSE IF includes(k, "conference league") THEN 2700000
      ELSE 2650000

----------------------------------------------------------------------------
(* Model (Poisson): poisPmf, probs1X2, sharpen3                             *)

\* Math.pow(l, k) / fac(k), built up as (l/1)(l/2)...(l/k) so that the
\* intermediate values stay in range (l^12 alone does not).
RECURSIVE PowOverFac(_, _)
PowOverFac(l, k) ==
  IF k = 0 THEN Scale ELSE MulPos(PowOverFac(l, k - 1), l) \div k

\* Math.exp(-l) * Math.pow(l, k) / fac(k)
poisPmf(l, k) == MulPos(ExpNeg(l), PowOverFac(l, k))

\* The default of probs1X2's parameter cap.
CAP == 12

\* The values poisPmf(l, k) for k in 0..upTo that the loops of probs1X2 use
\* as ph (k = i) and pa (k = j), each computed once.
RECURSIVE poisArray(_, _)
poisArray(l, upTo) ==
  IF upTo = 0 THEN 0 :> poisPmf(l, 0)
  ELSE poisArray(l, upTo - 1) @@ (upTo :> poisPmf(l, upTo))

\* The inner loop of probs1X2 for one i: the sum of ph * pa[j] over the
\* j in 0..upTo that put the score (i, j) in bucket "H" (i > j), "D" (i = j)
\* or "A" (i < j).
RECURSIVE RowSum(_, _, _, _, _)
RowSum(phi, pa, i, upTo, bucket) ==
  IF upTo < 0 THEN 0
  ELSE LET j  == upTo
           in == CASE bucket = "H" -> i > j
                   [] bucket = "D" -> i = j
                   [] OTHER -> i < j
       IN  (IF in THEN MulPos(phi, pa[j]) ELSE 0)
             + RowSum(phi, pa, i, upTo - 1, bucket)

\* The outer loop: the rows i in 0..upTo.
RECURSIVE GridSum(_, _, _, _, _)
GridSum(ph, pa, cap, upTo, bucket) ==
  IF upTo < 0 THEN 0
  ELSE RowSum(ph[upTo], pa, upTo, cap, bucket)
         + GridSum(ph, pa, cap, upTo - 1, bucket)

\* The division by s left out: the three sums returned as accumulated.
Normalize3_raw(pH, pD, pA) == [pH |-> pH, pD |-> pD, pA |-> pA]

\* pH / s, pD / s, pA / s with s = (pH + pD + pA) || 1
Normalize3(pH, pD, pA) ==
  LET s == IF pH + pD + pA = 0 THEN Scale ELSE pH + pD + pA
  IN  [pH |-> DivPos(pH, s), pD |-> DivPos(pD, s), pA |-> DivPos(pA, s)]

AllNaN3 == [pH |-> NaN, pD |-> NaN, pA |-> NaN]

\* The comparison of the first branch taken as i >= j: the level scores
\* counted for the home side as well as for the draw.
Buckets1X2_levelToHome(ph, pa, cap) ==
  Normalize3(GridSum(ph, pa, cap, cap, "H") + GridSum(ph, pa, cap, cap, "D"),
             GridSum(ph, pa, cap, cap, "D"), GridSum(ph, pa, cap, cap, "A"))

\* The two loops of probs1X2 over the Poisson vectors ph and pa.
Buckets1X2(ph, pa, cap) ==
  Normalize3(GridSum(ph, pa, cap, cap, "H"), GridSum(ph, pa, cap, cap, "D"),
             GridSum(ph, pa, cap, cap, "A"))

\* The two sides exchanged: the home outcome counted where i < j.
probs1X2_transposed(lh, la, cap) ==
  IF IsNaN(lh) \/ IsNaN(la) THEN AllNaN3
  ELSE Buckets1X2(poisArray(la, cap), poisArray(lh, cap), cap)

probs1X2(lh, la, cap) ==
  IF IsNaN(lh) \/ IsNaN(la) THEN AllNaN3
  ELSE Buckets1X2(poisArray(lh, cap), poisArray(la, cap), cap)

\* An exponent below 1 in place of tau: the fourth root.
sharpen3_flattened(pH, pD, pA, tau) ==
  IF IsNaN(pH) \/ IsNaN(pD) \/ IsNaN(pA) THEN AllNaN3
  ELSE Normalize3(Root4(pH), Root4(pD), Root4(pA))

sharpen3(pH, pD, pA, tau) ==
  IF IsNaN(pH) \/ IsNaN(pD) \/ IsNaN(pA) THEN AllNaN3
  ELSE Normalize3(PowTau(pH, tau), PowTau(pD, tau), PowTau(pA, tau))

----------------------------------------------------------------------------
(* Expected goals: expectedGoalsAdvanced                                    *)

SHARPEN_TAU_1X2 == 1250000
STRONG_DIFF_TILT == 220
EDGE_MIN == 80000
HOME == 65

\* The bounds both rates are clamped to.
RATE_MIN == 150000
RATE_MAX == 3200000

\* A rating read from SEED_ELO is a number unless it is an inherited member.
IsRating(v) == v >= 0

\* n / d for whole numbers n and d > 0, in millionths.
Quot(n, d) ==
  IF n < 0 THEN 0 - ((Abs(n) * Scale) \div d) ELSE (n * Scale) \div d

\* a - b for two values read from SEED_ELO (b possibly with HOME added to a
\* first): NaN unless both are numbers.
RatingDiff(a, plus, b) ==
  IF IsRating(a) /\ IsRating(b) THEN (a + plus) - b ELSE NaN

\* The swing of the share taken as 0.32 in place of 0.12.
splitRaw_widerSwing(diff) ==
  IF IsNaN(diff) THEN NaN ELSE 500000 + Mul(320000, Tanh(Quot(diff, 650)))

\* split = 0.5 + 0.12 * Math.tanh(diff / 650), then clamped to [0.36, 0.64]
splitRaw(diff) ==
  IF IsNaN(diff) THEN NaN ELSE 500000 + Mul(120000, Tanh(Quot(diff, 650)))

splitOf(diff) == MathMax(360000, MathMin(640000, splitRaw(diff)))

\* lh = base * split * (1 + diff / 2200), la = base * (1 - split) * (1 - diff / 2200)
lhRaw(base, split, diff) ==
  IF IsNaN(diff) THEN NaN ELSE Mul(Mul(base, split), Scale + Quot(diff, 2200))

laRaw(base, split, diff) ==
  IF IsNaN(diff) THEN NaN ELSE Mul(Mul(base, Scale - split), Scale - Quot(diff, 2200))

\* The gap taken with the home bonus added, as diff is.
tilted_withBonus(gap) == JsGe(JsSub(gap, 0 - HOME), STRONG_DIFF_TILT)

\* if (seedOf(homeName) - seedOf(awayName) >= STRONG_DIFF_TILT) { lh *= 1.10; la *= 0.90; }
tilted(gap) == JsGe(gap, STRONG_DIFF_TILT)

JsMul(a, b) == IF IsNaN(a) \/ IsNaN(b) THEN NaN ELSE Mul(a, b)

\* Math.max(0.15, Math.min(3.2, l))
clampRate(l) == MathMax(RATE_MIN, MathMin(RATE_MAX, l))

ratesWith(base, split, diff, tilt) ==
  [lh |-> clampRate(IF tilt THEN JsMul(lhRaw(base, split, diff), 1100000)
                    ELSE lhRaw(base, split, diff)),
   la |-> clampRate(IF tilt THEN JsMul(laRaw(base, split, diff), 900000)
                    ELSE laRaw(base, split, diff))]

\* The body of expectedGoalsAdvanced from the three values it looks up:
\* base = leagueBaseGpm(league), rh = seedOf(homeName), ra = seedOf(awayName).
ratesFrom(base, rh, ra) ==
  ratesWith(base, splitOf(RatingDiff(rh, HOME, ra)), RatingDiff(rh, HOME, ra),
            tilted(RatingDiff(rh, 0, ra)))

\* The two ratings passed in the wrong order.
expectedGoalsAdvanced_swapped(hName, aName, lg) ==
  ratesFrom(leagueBaseGpm(lg), seedOf(aName), seedOf(hName))

expectedGoalsAdvanced(hName, aName, lg) ==
  ratesFrom(leagueBaseGpm(lg), seedOf(hName), seedOf(aName))

----------------------------------------------------------------------------
(* Market selection: choiceFrom                                             *)

\* Array.prototype.sort with the comparator (a, b) => b.key - a.key, for a
\* consistent comparator: a stable sort, descending; a comparator result of
\* NaN counts as 0.  Given the keys, the result is the order of the indices.
\* An unstable insertion: an element put ahead of the earlier ones it equals.
RECURSIVE InsertDesc_unstable(_, _, _)
InsertDesc_unstable(order, keys, x) ==
  IF order = <<>> THEN <<x>>
  ELSE IF JsGe(keys[x], keys[Head(order)]) THEN <<x>> \o order
  ELSE <<Head(order)>> \o InsertDesc_unstable(Tail(order), keys, x)

RECURSIVE InsertDesc(_, _, _)
InsertDesc(order, keys, x) ==
  IF order = <<>> THEN <<x>>
  ELSE IF JsGt(keys[x], keys[Head(order)]) THEN <<x>> \o order
  ELSE <<Head(order)>> \o InsertDesc(Tail(order), keys, x)

RECURSIVE SortedOrder(_, _)
SortedOrder(keys, n) ==
  IF n = 0 THEN <<>> ELSE InsertDesc(SortedOrder(keys, n - 1), keys, n)

Permute(items, order) == [i \in 1..Len(items) |-> items[order[i]]]

\* [...].sort((a, b) => b.p - a.p)
sortByP(items) ==
  Permute(items, SortedOrder([i \in 1..Len(items) |-> items[i].p], Len(items)))

\* The comparator forgotten: the array left in construction order.
sortByEdge_unsorted(items) == items

\* [...].sort((a, b) => b.edge - a.edge)
sortByEdge(items) ==
  Permute(items, SortedOrder([i \in 1..Len(items) |-> items[i].edge], Len(items)))

\* A candidate without the property note.
NoNote == "(none)"

\* let {pH, pD, pA} = probs1X2(lh, la); ({pH, pD, pA} = sharpen3(pH, pD, pA, tau))
sharpened(p, tau) == sharpen3(p.pH, p.pD, p.pA, tau)

probsSharp(lh, la) == sharpened(probs1X2(lh, la, CAP), SHARPEN_TAU_1X2)

\* The sort taken ascending: the least probable outcome chosen.
best1Of_last(p) ==
  sortByP(<< [label |-> "1", p |-> p.pH], [label |-> "X", p |-> p.pD],
             [label |-> "2", p |-> p.pA] >>)[3]

\* best1 = [{label:'1', p:pH}, {label:'X', p:pD}, {label:'2', p:pA}].sort(...)[0]
best1Of(p) ==
  sortByP(<< [label |-> "1", p |-> p.pH], [label |-> "X", p |-> p.pD],
             [label |-> "2", p |-> p.pA] >>)[1]

\* The loop run one step too far: i = 0..3.
pUnder25_upTo3(lh, la) ==
  IF IsNaN(lh) \/ IsNaN(la) THEN NaN
  ELSE poisPmf(lh + la, 0) + poisPmf(lh + la, 1) + poisPmf(lh + la, 2)
         + poisPmf(lh + la, 3)

\* pU25: the sum of poisPmf(tot, i) for i = 0..2, with tot = lh + la
pUnder25(lh, la) ==
  IF IsNaN(lh) \/ IsNaN(la) THEN NaN
  ELSE poisPmf(lh + la, 0) + poisPmf(lh + la, 1) + poisPmf(lh + la, 2)

\* The comparison taken strictly: level probabilities give 'Under 2.5'.
bestTotOf_overOnlyIfMore(pU25) ==
  IF JsGt(JsSub(Scale, pU25), pU25)
  THEN [market |-> "Over/Under 2.5", label |-> "Over 2.5", p |-> JsSub(Scale, pU25)]
  ELSE [market |-> "Over/Under 2.5", label |-> "Under 2.5", p |-> pU25]

\* bestTot from pU25, with pO25 = 1 - pU25
bestTotOf(pU25) ==
  IF JsGe(JsSub(Scale, pU25), pU25)
  THEN [market |-> "Over/Under 2.5", label |-> "Over 2.5", p |-> JsSub(Scale, pU25)]
  ELSE [market |-> "Over/Under 2.5", label |-> "Under 2.5", p |-> pU25]

\* pBTTS = 1 - (Math.exp(-lh) + Math.exp(-la) - Math.exp(-(lh + la)))
pBothScore(lh, la) ==
  IF IsNaN(lh) \/ IsNaN(la) THEN NaN
  ELSE Scale - (ExpNeg(lh) + ExpNeg(la) - ExpNeg(lh + la))

bestBTTSOf(pBTTS) ==
  IF JsGe(pBTTS, 500000)
  THEN [market |-> "BTTS", label |-> "Yes", p |-> pBTTS]
  ELSE [market |-> "BTTS", label |-> "No", p |-> JsSub(Scale, pBTTS)]

\* The uniform baselines the edges are measured against: 1/3 and 0.5.
Third == Scale \div 3
HalfProb == Scale \div 2

\* A copy-and-paste slip: the BTTS candidate given the totals label.
candOf_pastedLabel(best1, bestTot, bestBTTS) ==
  << [market |-> "1X2", label |-> best1.label, prob |-> best1.p,
      edge |-> JsSub(best1.p, Third), base |-> 330000, note |-> NoNote],
     [market |-> bestTot.market, label |-> bestTot.label, prob |-> bestTot.p,
      edge |-> JsSub(bestTot.p, HalfProb), base |-> 500000, note |-> NoNote],
     [market |-> "BTTS", label |-> bestTot.label, prob |-> bestBTTS.p,
      edge |-> JsSub(bestBTTS.p, HalfProb), base |-> 500000, note |-> NoNote] >>

\* The baselines left out: each edge equal to the probability.
candOf_noBaseline(best1, bestTot, bestBTTS) ==
  << [market |-> "1X2", label |-> best1.label, prob |-> best1.p,
      edge |-> best1.p, base |-> 330000, note |-> NoNote],
     [market |-> bestTot.market, label |-> bestTot.label, prob |-> bestTot.p,
      edge |-> bestTot.p, base |-> 500000, note |-> NoNote],
     [market |-> "BTTS", label |-> bestBTTS.label, prob |-> bestBTTS.p,
      edge |-> bestBTTS.p, base |-> 500000, note |-> NoNote] >>

\* The array cand of choiceFrom before its sort, from best1, bestTot, bestBTTS.
candOf(best1, bestTot, bestBTTS) ==
  << [market |-> "1X2", label |-> best1.label, prob |-> best1.p,
      edge |-> JsSub(best1.p, Third), base |-> 330000, note |-> NoNote],
     [market |-> bestTot.market, label |-> bestTot.label, prob |-> bestTot.p,
      edge |-> JsSub(bestTot.p, HalfProb), base |-> 500000, note |-> NoNote],
     [market |-> "BTTS", label |-> bestBTTS.label, prob |-> bestBTTS.p,
      edge |-> JsSub(bestBTTS.p, HalfProb), base |-> 500000, note |-> NoNote] >>

\* p^tau / (p^tau + (1 - p)^tau): a two-outcome market sharpened as 1X2 is.
sharpen2(p, tau) ==
  DivPos(PowTau(p, tau), PowTau(p, tau) + PowTau(Scale - p, tau))

\* The sharpening applied to the goals markets as well.
candidatesAt_sharpenAll(lh, la, tau) ==
  candOf(best1Of(sharpened(probs1X2(lh, la, CAP), tau)),
         bestTotOf(sharpen2(pUnder25(lh, la), tau)),
         bestBTTSOf(sharpen2(pBothScore(lh, la), tau)))

\* The array cand before its sort when SHARPEN_TAU_1X2 is tau.
candidatesAt(lh, la, tau) ==
  candOf(best1Of(sharpened(probs1X2(lh, la, CAP), tau)),
         bestTotOf(pUnder25(lh, la)), bestBTTSOf(pBothScore(lh, la)))

candidates(lh, la) == candidatesAt(lh, la, SHARPEN_TAU_1X2)

\* The comparison turned round: the note put on the picks above the threshold.
noted_reversed(top) ==
  IF JsGt(top.edge, EDGE_MIN) THEN [top EXCEPT !.note = "low-edge-fallback"] ELSE top

\* if (top.edge < EDGE_MIN) top.note = 'low-edge-fallback'
noted(top) ==
  IF JsLt(top.edge, EDGE_MIN) THEN [top EXCEPT !.note = "low-edge-fallback"] ELSE top

\* A slip in the indices: second read from cand[0] as well.
topSecond_sameIndex(cand) == [top |-> noted(cand[1]), second |-> cand[1]]

\* const top = cand[0], second = cand[1]; ...; return { top, second }
topSecond(cand) == [top |-> noted(cand[1]), second |-> cand[2]]

choiceFrom(lh, la) == topSecond(sortByEdge(candidates(lh, la)))

----------------------------------------------------------------------------
(* The row builder of sourceEspnScheduleToday: for each parsed fixture,     *)
(*   const { lh, la } = expectedGoalsAdvanced(home, away, league);          *)
(*   const ch = choiceFrom(lh, la);                                         *)

\* Team names as the schedule page may spell them.
TeamNames ==
  {"", "Manchester City", "MANCHESTER CITY FC", "manchester-city", "Liverpool",
   "  Liverpool F.C. ", "Bayern Munich", "FC Bayern Munich", "Fenerbahce",
   "Lille", "Paris Saint-Germain", "PSG", "RCD Mallorca", "Trabzonspor",
   "UnknownTeamX", "UnknownTeamY", "Constructor", "!?"}

\* League labels as the schedule page may spell them.
LeagueLabels ==
  {"", "Premier League", "German Bundesliga", "Obscure Regional Cup",
   "Turkish Super Lig", "Süper Lig", "Premier Bundesliga Cup", "LA LIGA",
   "Italian Serie A", "Ligue 1", "Eredivisie", "Primeira Liga",
   "UEFA Champions League", "UEFA Europa League", "UEFA Conference League",
   "Bundesliga Premier"}

\* The values of lam and pick before the calls that set them.
NoRates == [lh |-> 0, la |-> 0]
NoCandidate ==
  [market |-> "", label |-> "", prob |-> 0, edge |-> 0, base |-> 0, note |-> NoNote]
NoPick == [top |-> NoCandidate, second |-> NoCandidate]

\* null
Null == "(null)"

\* The local dates todayYMD() returns, in the order they pass.
Days == <<"2025-06-01", "2025-06-02">>

\* let CACHE = { date: null, rows: [], savedAt: null, error: null };
EmptyCache == [date |-> Null, rows |-> <<>>, savedAt |-> Null, error |-> Null]

\* The refreshes that may await their page: each took date = todayYMD()
\* when it started, and is awaited by the GET /api/today that started it
\* (waiter) or by no request (cron, the initial warm).
RunKinds == {[date |-> Days[i], waiter |-> w] : i \in 1..Len(Days), w \in BOOLEAN}

\* No refresh is running: of each kind, no run.
NoRuns == [k \in RunKinds |-> 0]

\* No request was answered yet.
NoResponse ==
  [path |-> Null, status |-> 0, body |-> [error |-> Null], now |-> Null,
   awaited |-> FALSE]

\* The module as loaded: the two tables as written in the source, the cache
\* empty, no refresh running.
Loaded ==
  /\ aliasTable = ALIAS
  /\ seedTable = SEED_ELO
  /\ cache = EmptyCache
  /\ today = Days[1]
  /\ inflight = NoRuns
  /\ res = NoResponse
  /\ parsed = <<>>

\* A fixture parsed from the page: its two team names and its league label.
Init ==
  /\ homeName \in TeamNames
  /\ awayName \in TeamNames
  /\ league \in LeagueLabels
  /\ lam = NoRates
  /\ pick = NoPick
  /\ pc = "parsed"
  /\ calls = <<>>
  /\ Loaded

\* The rates made to depend on how many predictions came before.
EstimateGoals_drifting ==
  /\ pc = "parsed"
  /\ lam' = ratesFrom(leagueBaseGpm(league) + Len(calls) * 10000,
                      seedOf(homeName), seedOf(awayName))
  /\ pc' = "rates"
  /\ UNCHANGED <<fixture, pick, calls, tables, server>>

\* const { lh, la } = expectedGoalsAdvanced(home, away, league);
EstimateGoals ==
  /\ pc = "parsed"
  /\ lam' = expectedGoalsAdvanced(homeName, awayName, league)
  /\ pc' = "rates"
  /\ UNCHANGED <<fixture, pick, calls, tables, server>>

\* const ch = choiceFrom(lh, la);
Choose ==
  /\ pc = "rates"
  /\ pick' = choiceFrom(lam.lh, lam.la)
  /\ pc' = "picked"
  /\ UNCHANGED <<fixture, lam, calls, tables, server>>

Next ==
  \/ EstimateGoals
  \/ Choose

Spec == Init /\ [][Next]_vars

----------------------------------------------------------------------------
(* choiceFrom as a function of its two rates, over a grid of the interval   *)
(* [0.15, 3.2] that expectedGoalsAdvanced clamps its results to.            *)

\* The grid has GridN steps between the two ends of the interval.
GridN == 10

\* Rates of the two scenarios of the specification's section 8.
ScenarioRates == {1250000, 1325000}

Rates ==
  {RATE_MIN + (i * (RATE_MAX - RATE_MIN)) \div GridN : i \in 0..GridN}
    \cup ScenarioRates

\* Rates at which two of the three edges are equal (1X2 and totals, totals
\* and BTTS, 1X2 and BTTS), and rates at which the two sides of a market
\* are: over and under 2.5 goals, both teams scoring and not.
TiedRates ==
  {[lh |-> 1211986, la |-> 500000], [lh |-> 1400933, la |-> 500000],
   [lh |-> 1151454, la |-> 500000], [lh |-> 2174049, la |-> 500000],
   [lh |-> 1031722, la |-> 1500000]}

InitChoice ==
  /\ homeName = ""
  /\ awayName = ""
  /\ league = ""
  /\ lam \in [lh : Rates, la : Rates] \cup TiedRates
  /\ pick = NoPick
  /\ pc = "rates"
  /\ calls = <<>>
  /\ Loaded

NextChoice == Choose

SpecChoice == InitChoice /\ [][NextChoice]_vars

----------------------------------------------------------------------------
(* The row builder called for one table row after another: each call of the *)
(* callback of $tbl.find('tbody tr').each makes one prediction.             *)

\* At most this many predictions are made in one behaviour.
MaxCalls == 3

\* The fixtures of the rows: two different teams and a league label.
CallTeams == {"Liverpool", "UnknownTeamX"}
CallLeagues == {"Premier League", "Obscure Regional Cup"}

InitCalls ==
  /\ homeName \in CallTeams
  /\ awayName \in CallTeams \ {homeName}
  /\ league \in CallLeagues
  /\ lam = NoRates
  /\ pick = NoPick
  /\ pc = "parsed"
  /\ calls = <<>>
  /\ Loaded

\* The callback is done with one row and is called for the next: lh, la and
\* ch are constants of the call that ends, and the next call has its own.
NextRow ==
  /\ pc = "picked"
  /\ Len(calls) < MaxCalls
  /\ calls' = Append(calls, [home |-> homeName, away |-> awayName,
                             league |-> league, lam |-> lam,
                             top |-> pick.top, second |-> pick.second])
  /\ homeName' \in CallTeams
  /\ awayName' \in CallTeams \ {homeName'}
  /\ league' \in CallLeagues
  /\ lam' = NoRates
  /\ pick' = NoPick
  /\ pc' = "parsed"
  /\ UNCHANGED <<tables, server>>

NextCalls ==
  \/ EstimateGoals
  \/ Choose
  \/ NextRow

SpecCalls == InitCalls /\ [][NextCalls]_vars

----------------------------------------------------------------------------
(* The rows of one refresh: parseEspnTime, the row builder, the de-dupe and *)
(* the sort of sourceEspnScheduleToday, the filters of fetchFixturesToday   *)

IsDigit(c) == IndexIn(c, DigitChars) > 0
DigitVal(c) == IndexIn(c, DigitChars) - 1

\* String(n) for a whole number n >= 0.
RECURSIVE ToStr(_)
ToStr(n) ==
  IF n < 10 THEN CharAt(DigitChars, n + 1)
  ELSE ToStr(n \div 10) \o CharAt(DigitChars, (n % 10) + 1)

\* String(n).padStart(2, '0')
Pad2(n) == IF n < 10 THEN "0" \o ToStr(n) ELSE ToStr(n)

\* The places of the ':' of a match of /(\d{1,2}):(\d{2})/ in s.
ClockColons(s) ==
  {p \in 2..(Len(s) - 2) :
     /\ CharAt(s, p) = ":"
     /\ IsDigit(CharAt(s, p - 1))
     /\ IsDigit(CharAt(s, p + 1)) /\ IsDigit(CharAt(s, p + 2))}

FirstOf(S) == CHOOSE p \in S : \A q \in S : p <= q

\* The first place at or after p that holds no blank.
RECURSIVE SkipBlanks(_, _)
SkipBlanks(s, p) ==
  IF p <= Len(s) /\ CharAt(s, p) = " " THEN SkipBlanks(s, p + 1) ELSE p

\* timeMatch[3]?.toUpperCase(): "AM", "PM" or undefined, read after the
\* minutes and any blanks.
PeriodAt(s, p) ==
  IF p + 1 <= Len(s) /\ toLowerCase(SubSeq(s, p, p + 1)) \in {"am", "pm"}
  THEN toLowerCase(SubSeq(s, p, p + 1)) ELSE "undefined"

\* The hours of the match: one digit, or two when a digit precedes it.
HoursAt(s, colon) ==
  IF colon > 2 /\ IsDigit(CharAt(s, colon - 2))
  THEN 10 * DigitVal(CharAt(s, colon - 2)) + DigitVal(CharAt(s, colon - 1))
  ELSE DigitVal(CharAt(s, colon - 1))

MinutesAt(s, colon) ==
  10 * DigitVal(CharAt(s, colon + 1)) + DigitVal(CharAt(s, colon + 2))

\* if (period === 'PM' && hours < 12) hours += 12;
\* if (period === 'AM' && hours === 12) hours = 0;
To24(hours, period) ==
  IF period = "pm" /\ hours < 12 THEN hours + 12
  ELSE IF period = "am" /\ hours = 12 THEN 0
  ELSE hours

\* parseEspnTime(timeText) on the local date now: the date alone when the
\* text holds no h:mm, else the date and the time on the 24-hour clock.
parseEspnTime(timeText, now) ==
  IF ClockColons(timeText) = {} THEN now
  ELSE LET c == FirstOf(ClockColons(timeText))
       IN  now \o " "
             \o Pad2(To24(HoursAt(timeText, c),
                          PeriodAt(timeText, SkipBlanks(timeText, c + 3))))
             \o ":" \o Pad2(MinutesAt(timeText, c))

\* Math.round(x * 100) for x >= 0 in millionths; NaN stays NaN.
RoundPct(x) == IF IsNaN(x) THEN NaN ELSE (x * 100 + Scale \div 2) \div Scale

PctText(x) == IF IsNaN(x) THEN "NaN" ELSE ToStr(RoundPct(x))

\* `${c.market}: ${c.label} (${Math.round(c.prob * 100)}%)`
predictionText(c) ==
  c.market \o ": " \o c.label \o " (" \o PctText(c.prob) \o "%)"

\* Math.round(Math.max(0, edge) * 100); Math.max(0, NaN) is NaN.
edgePct(edge) == RoundPct(MathMax(0, edge))

\* A row that carries its primary prediction only when the edge of the top
\* pick reaches 10 points.
rowFrom_onlyStrongPicks(ev, kickoff, ch) ==
  [league |-> ev.league, kickoff |-> kickoff, home |-> ev.home, away |-> ev.away,
   prediction |-> IF JsGe(edgePct(ch.top.edge), 10) THEN predictionText(ch.top) ELSE "",
   altPrediction |-> predictionText(ch.second),
   primaryEdgePct |-> edgePct(ch.top.edge),
   altEdgePct |-> edgePct(ch.second.edge), source |-> "ESPN"]

\* The object pushed to out for one parsed table row.
rowFrom(ev, kickoff, ch) ==
  [league |-> ev.league, kickoff |-> kickoff, home |-> ev.home, away |-> ev.away,
   prediction |-> predictionText(ch.top),
   altPrediction |-> predictionText(ch.second),
   primaryEdgePct |-> edgePct(ch.top.edge),
   altEdgePct |-> edgePct(ch.second.edge), source |-> "ESPN"]

ratesOf(ev) == expectedGoalsAdvanced(ev.home, ev.away, ev.league)
choiceOf(l) == choiceFrom(l.lh, l.la)

\* The array out after the loops over the rows of the page.
outOf(page, now) ==
  [i \in 1..Len(page) |->
     rowFrom(page[i], parseEspnTime(page[i].timeText, now), choiceOf(ratesOf(page[i])))]

\* `${r.league}__${r.home}__${r.away}__${r.kickoff}`
keyOf(r) == r.league \o "__" \o r.home \o "__" \o r.away \o "__" \o r.kickoff

\* A row dropped only when the row right before it has its key.
RECURSIVE uniqOf_adjacent(_, _)
uniqOf_adjacent(out, upTo) ==
  IF upTo = 0 THEN <<>>
  ELSE IF upTo > 1 /\ keyOf(out[upTo - 1]) = keyOf(out[upTo])
       THEN uniqOf_adjacent(out, upTo - 1)
       ELSE Append(uniqOf_adjacent(out, upTo - 1), out[upTo])

\* The values of the Map uniq, in insertion order: of the rows with one key
\* the first.
RECURSIVE uniqOf(_, _)
uniqOf(out, upTo) ==
  IF upTo = 0 THEN <<>>
  ELSE IF \E j \in 1..(upTo - 1) : keyOf(out[j]) = keyOf(out[upTo])
       THEN uniqOf(out, upTo - 1)
       ELSE Append(uniqOf(out, upTo - 1), out[upTo])

\* The order localeCompare gives the characters of a kickoff string: the
\* blank, the punctuation, the digits.
CollationOrder == " -:0123456789"

\* a.localeCompare(b) < 0 for two kickoff strings.
RECURSIVE KickoffBefore(_, _)
KickoffBefore(a, b) ==
  IF b = "" THEN FALSE
  ELSE IF a = "" THEN TRUE
  ELSE IF CharAt(a, 1) = CharAt(b, 1)
       THEN KickoffBefore(SubSeq(a, 2, Len(a)), SubSeq(b, 2, Len(b)))
       ELSE IndexIn(CharAt(a, 1), CollationOrder) < IndexIn(CharAt(b, 1), CollationOrder)

\* One step of the stable sort: r put behind the rows that are not after it.
RECURSIVE InsertByKickoff(_, _)
InsertByKickoff(sorted, r) ==
  IF sorted = <<>> THEN <<r>>
  ELSE IF KickoffBefore(r.kickoff, Head(sorted).kickoff) THEN <<r>> \o sorted
  ELSE <<Head(sorted)>> \o InsertByKickoff(Tail(sorted), r)

\* .sort((a, b) => (a.kickoff || '').localeCompare(b.kickoff || ''))
RECURSIVE sortByKickoff(_, _)
sortByKickoff(rows, upTo) ==
  IF upTo = 0 THEN <<>>
  ELSE InsertByKickoff(sortByKickoff(rows, upTo - 1), rows[upTo])

\* The rows sourceEspnScheduleToday returns for a fetched page.
uniqAll(out) == uniqOf(out, Len(out))
sortAll(rows) == sortByKickoff(rows, Len(rows))

espnRows(page, now) == sortAll(uniqAll(outOf(page, now)))

START_HOUR == 0
END_HOUR == 24
HIDE_PREDICTIONLESS == TRUE

\* The time window filter: a kickoff without a time passes, one with a time
\* passes when its hour is in [START_HOUR, END_HOUR).
InWindow(r) ==
  IF Len(r.kickoff) < 16 THEN TRUE
  ELSE LET hh == 10 * DigitVal(CharAt(r.kickoff, 12)) + DigitVal(CharAt(r.kickoff, 13))
       IN  hh >= START_HOUR /\ hh < END_HOUR

\* if (HIDE_PREDICTIONLESS) rows = rows.filter(r => r.prediction);
HasPrediction(r) == HIDE_PREDICTIONLESS => r.prediction # ""

\* The rows fetchFixturesToday returns, from those of the ESPN source.
filtered(rows) == SelectSeq(SelectSeq(rows, InWindow), HasPrediction)

\* The rows fetchFixturesToday returns when the page was fetched.
fetchedRows(page, now) == filtered(espnRows(page, now))

\* CACHE = { ...fresh, savedAt: new Date().toISOString(), source: 'ESPN-only',
\* error: null } with fresh = { date, rows, count: rows.length }; the time of
\* saving is kept to the day.
cacheFrom(date, rows, now) ==
  [date |-> date, rows |-> rows, count |-> Len(rows), savedAt |-> now,
   source |-> "ESPN-only", error |-> Null]

----------------------------------------------------------------------------
(* The server: the boot warm-up, the cron ticks, GET /api/today, and the    *)
(* refreshes they start.  A refresh notes the date, awaits the page, and    *)
(* when the fetch has ended builds its rows and replaces CACHE, all in one  *)
(* synchronous stretch.  The catch branch of warmCache is not reachable:    *)
(* sourceEspnScheduleToday turns a failed fetch into an empty row list.     *)

\* At most this many refreshes await their page at one time.
MaxRuns == 2

\* At most this many table rows are parsed from one page.
MaxEvents == 2

\* The table rows of the schedule page, as parsed (league, teams, time
\* text), in page order: the later kickoff first, and one row listed twice.
PageEvents ==
  <<[league |-> "Premier League", home |-> "Liverpool",
     away |-> "Manchester City", timeText |-> "3:00 PM"],
    [league |-> "German Bundesliga", home |-> "Bayern Munich",
     away |-> "UnknownTeamX", timeText |-> "11:30 AM"],
    [league |-> "Premier League", home |-> "Liverpool",
     away |-> "Manchester City", timeText |-> "3:00 PM"]>>

\* The pages a fetch may give: the first n rows of the table.
Pages ==
  {SubSeq(PageEvents, 1, n) :
     n \in 0..(IF MaxEvents < Len(PageEvents) THEN MaxEvents ELSE Len(PageEvents))}

RECURSIVE RunsOf(_)
RunsOf(kinds) ==
  IF kinds = {} THEN 0
  ELSE LET k == CHOOSE x \in kinds : TRUE
       IN  inflight[k] + RunsOf(kinds \ {k})

RunsTotal == RunsOf(RunKinds)

InitServer ==
  /\ homeName = ""
  /\ awayName = ""
  /\ league = ""
  /\ lam = NoRates
  /\ pick = NoPick
  /\ pc = "listening"
  /\ calls = <<>>
  /\ Loaded

\* warmCache() up to the await of the page: fetchFixturesToday has taken
\* date = todayYMD().
StartRun(waiter) ==
  /\ RunsTotal < MaxRuns
  /\ inflight' = [inflight EXCEPT ![[date |-> today, waiter |-> waiter]] = @ + 1]
  /\ UNCHANGED <<fixture, parsed, lam, pick, calls, tables, cache, today, res>>

\* setTimeout(() => warmCache(), 2000) of app.listen
BootWarm ==
  /\ pc = "listening"
  /\ pc' = "serving"
  /\ StartRun(FALSE)

\* cron.schedule('1 0 * * *', warmCache) and cron.schedule('0 */6 * * *', warmCache)
CronTick ==
  /\ StartRun(FALSE)
  /\ UNCHANGED pc

\* res.json(CACHE) of app.get('/api/today'), for the request that took
\* now = todayYMD() and did or did not await a refresh.
jsonOfCache(body, now, awaited) ==
  [path |-> "/api/today", status |-> 200, body |-> body, now |-> now,
   awaited |-> awaited]

\* The test of the date left out: a refresh is awaited only when the cache
\* was never saved.
ApiToday_anySavedCache ==
  /\ IF cache.savedAt = Null
     THEN StartRun(TRUE)
     ELSE /\ res' = jsonOfCache(cache, today, FALSE)
          /\ UNCHANGED <<fixture, parsed, lam, pick, calls, tables, cache, today, inflight>>
  /\ UNCHANGED pc

\* app.get('/api/today'): a refresh is started and awaited when the cache
\* is of another date or was never saved; otherwise CACHE is sent at once.
ApiToday ==
  /\ IF cache.date # today \/ cache.savedAt = Null
     THEN StartRun(TRUE)
     ELSE /\ res' = jsonOfCache(cache, today, FALSE)
          /\ UNCHANGED <<fixture, parsed, lam, pick, calls, tables, cache, today, inflight>>
  /\ UNCHANGED pc

\* The paths of the README that no app.get of the source routes.
UnroutedPaths == {"/api/fixtures"}

\* app.use((req, res) => res.status(404).json({ error: 'Not found' }))
NotFound(path) ==
  /\ res' = [path |-> path, status |-> 404, body |-> [error |-> "Not found"],
             now |-> Null, awaited |-> FALSE]
  /\ UNCHANGED <<fixture, parsed, lam, pick, pc, calls, tables, cache, today, inflight>>

\* A refresh that adds its rows to those the cache holds.
Completes_addingRows(run, fresh) ==
  /\ inflight' = [inflight EXCEPT ![run] = @ - 1]
  /\ cache' = [fresh EXCEPT !.rows = cache.rows \o fresh.rows]
  /\ res' = IF run.waiter THEN jsonOfCache(cache', run.date, TRUE) ELSE res

\* The end of warmCache: CACHE = { ...fresh, savedAt, source, error }, and
\* the request that awaited this run, if any, goes on to res.json(CACHE).
Completes(run, fresh) ==
  /\ inflight' = [inflight EXCEPT ![run] = @ - 1]
  /\ cache' = fresh
  /\ res' = IF run.waiter THEN jsonOfCache(fresh, run.date, TRUE) ELSE res

\* A failed fetch that leaves the rows of the cache as they were.
FetchFails_keepingRows(run) ==
  /\ inflight[run] > 0
  /\ Completes(run, cacheFrom(run.date, cache.rows, today))
  /\ parsed' = <<>>
  /\ UNCHANGED <<fixture, lam, pick, pc, calls, tables, today>>

\* The fetch of a refresh failed: rows = [].
FetchFails(run) ==
  /\ inflight[run] > 0
  /\ Completes(run, cacheFrom(run.date, <<>>, today))
  /\ parsed' = <<>>
  /\ UNCHANGED <<fixture, lam, pick, pc, calls, tables, today>>

\* A refresh that adds to SEED_ELO an entry of 1500 for the home team of
\* the first row it parsed.
FetchSucceeds_learning(page) ==
  /\ RunsTotal > 0
  /\ \E out \in {outOf(page, today)} :
       \E rows \in {sortAll(uniqAll(out))} :
         \E run \in RunKinds :
           /\ inflight[run] > 0
           /\ Completes(run, cacheFrom(run.date, filtered(rows), today))
           /\ parsed' = out
  /\ seedTable' = IF page = <<>> THEN seedTable
                  ELSE Append(seedTable, <<normTeam(page[1].home), DefaultRating>>)
  /\ UNCHANGED <<fixture, lam, pick, pc, calls, aliasTable, today>>

\* The fetch of a running refresh gave a page: its rows are built (a
\* prediction for each), de-duplicated, sorted and filtered, and CACHE is
\* replaced.
FetchSucceeds(page) ==
  /\ RunsTotal > 0
  /\ \E out \in {outOf(page, today)} :
       \E rows \in {sortAll(uniqAll(out))} :
         \E run \in RunKinds :
           /\ inflight[run] > 0
           /\ Completes(run, cacheFrom(run.date, filtered(rows), today))
           /\ parsed' = out
  /\ UNCHANGED <<fixture, lam, pick, pc, calls, tables, today>>

\* The local date changes.
MidnightPasses ==
  /\ \E i \in 1..(Len(Days) - 1) : today = Days[i] /\ today' = Days[i + 1]
  /\ UNCHANGED <<fixture, parsed, lam, pick, pc, calls, tables, cache, inflight, res>>

NextServer ==
  \/ BootWarm
  \/ CronTick
  \/ ApiToday
  \/ \E path \in UnroutedPaths : NotFound(path)
  \/ \E run \in RunKinds : FetchFails(run)
  \/ \E page \in Pages : FetchSucceeds(page)
  \/ MidnightPasses

SpecServer == InitServer /\ [][NextServer]_vars

----------------------------------------------------------------------------
(* One refresh followed from its page to the cache it stores: the pages are *)
(* drawn from a table with repeated rows, equal and missing kick-off times. *)

\* At most this many table rows are listed on one page.
MaxListed == 3

\* The table rows a page may list, as parsed.
ListedEvents ==
  {[league |-> "Premier League", home |-> "Liverpool",
    away |-> "Manchester City", timeText |-> "3:00 PM"],
   [league |-> "German Bundesliga", home |-> "Bayern Munich",
    away |-> "UnknownTeamX", timeText |-> "11:30 AM"],
   [league |-> "Premier League", home |-> "Liverpool",
    away |-> "Manchester City", timeText |-> "11:30 AM"],
   [league |-> "Spanish LALIGA", home |-> "Real Madrid",
    away |-> "Barcelona", timeText |-> "LIVE"],
   [league |-> "Italian Serie A", home |-> "Inter",
    away |-> "Juventus", timeText |-> "9:45 PM"],
   [league |-> "Premier League", home |-> "Arsenal",
    away |-> "Chelsea", timeText |-> "12:05 AM"]}

ListedPages == UNION {[1..n -> ListedEvents] : n \in 0..MaxListed}

\* The server with one refresh, started by the cron today, awaiting its page.
InitRows ==
  /\ homeName = ""
  /\ awayName = ""
  /\ league = ""
  /\ lam = NoRates
  /\ pick = NoPick
  /\ pc = "serving"
  /\ calls = <<>>
  /\ aliasTable = ALIAS
  /\ seedTable = SEED_ELO
  /\ cache = EmptyCache
  /\ today \in {Days[i] : i \in 1..Len(Days)}
  /\ inflight = [NoRuns EXCEPT ![[date |-> today, waiter |-> FALSE]] = 1]
  /\ res = NoResponse
  /\ parsed = <<>>

NextRows == \E page \in ListedPages : FetchSucceeds(page)

SpecRows == InitRows /\ [][NextRows]_vars

----------------------------------------------------------------------------
(* Properties of choiceFrom (checked under SpecChoice)                      *)

Markets == {"1X2", "Over/Under 2.5", "BTTS"}

Max2(a, b) == IF a >= b THEN a ELSE b
Max3(a, b, c) == Max2(a, Max2(b, c))

\* A candidate as returned, without regard to its note.
Plain(c) == [c EXCEPT !.note = NoNote]

\* C1: for every pair of rates choiceFrom returns a top and a second pick,
\* each a complete prediction (a market of the three, a numeric probability
\* and edge), and the two are for different markets.
C1_TopAndSecondDistinct ==
  pc = "picked" =>
    /\ pick.top.market \in Markets
    /\ pick.second.market \in Markets
    /\ pick.top.market # pick.second.market
    /\ ~IsNaN(pick.top.prob) /\ ~IsNaN(pick.top.edge)
    /\ ~IsNaN(pick.second.prob) /\ ~IsNaN(pick.second.edge)
    /\ pick.top.label # "" /\ pick.second.label # ""

\* C1 witness: a pair was returned whose top pick is not the first candidate
\* in construction order.
C1_Witness ==
  /\ pc = "picked"
  /\ pick.top.market = "Over/Under 2.5"
  /\ pick.second.market \in {"1X2", "BTTS"}

\* C2: top and second are candidates of choiceFrom; top has maximal edge
\* among the three, second has at most top's edge and at least the edge of
\* the candidate that is not returned.
C2_RankedByEdge ==
  pc = "picked" =>
    \E c \in {candidates(lam.lh, lam.la)} :
      /\ \E i \in 1..3 : c[i] = Plain(pick.top)
      /\ \E i \in 1..3 : c[i] = pick.second
      /\ \A i \in 1..3 : pick.top.edge >= c[i].edge
      /\ pick.top.edge >= pick.second.edge
      /\ \A i \in 1..3 :
           c[i].market \notin {pick.top.market, pick.second.market}
             => pick.second.edge >= c[i].edge

\* C2 witness: a pair was returned in which the sort moved the third
\* candidate (BTTS) to the top, strictly ahead of the second.
C2_Witness ==
  /\ pc = "picked"
  /\ pick.top.market = "BTTS"
  /\ pick.top.edge > pick.second.edge

\* C3: the note low-edge-fallback is on the top pick exactly when its edge is
\* below EDGE_MIN, never on the second pick, and with it the pair is still
\* complete.
C3_NoteIffLowEdge ==
  pc = "picked" =>
    /\ (pick.top.note = "low-edge-fallback") <=> (pick.top.edge < EDGE_MIN)
    /\ pick.top.note \in {"low-edge-fallback", NoNote}
    /\ pick.second.note = NoNote
    /\ pick.top.market \in Markets /\ pick.second.market \in Markets
    /\ ~IsNaN(pick.top.prob) /\ ~IsNaN(pick.second.prob)

\* C3 witness: a pair was returned whose top pick carries the note.
C3_Witness ==
  /\ pc = "picked"
  /\ pick.top.note = "low-edge-fallback"
  /\ pick.top.edge < EDGE_MIN
  /\ pick.second.market \in Markets

\* The labels of the outcomes of a 1X2 distribution p that have probability q.
LabelsAt(p, q) ==
  {l \in {"1", "X", "2"} :
     (l = "1" /\ p.pH = q) \/ (l = "X" /\ p.pD = q) \/ (l = "2" /\ p.pA = q)}

\* C4: the 1X2 candidate is an outcome of highest sharpened probability with
\* edge = probability - 1/3; the totals candidate is the higher of pOver2_5
\* and pUnder2_5 with edge = probability - 0.5; the BTTS candidate is the
\* higher of Yes and No with edge = probability - 0.5.
C4_CandidatesAreMarketMaxima ==
  pc \in {"rates", "picked"} =>
    \E c \in {candidates(lam.lh, lam.la)}, p \in {probsSharp(lam.lh, lam.la)},
       pU \in {pUnder25(lam.lh, lam.la)}, pB \in {pBothScore(lam.lh, lam.la)} :
      /\ c[1].market = "1X2"
      /\ c[1].prob = Max3(p.pH, p.pD, p.pA)
      /\ c[1].label \in LabelsAt(p, c[1].prob)
      /\ c[1].edge = c[1].prob - Third
      /\ c[2].market = "Over/Under 2.5"
      /\ c[2].prob = Max2(Scale - pU, pU)
      /\ c[2].label = (IF c[2].prob = Scale - pU THEN "Over 2.5" ELSE "Under 2.5")
      /\ c[2].edge = c[2].prob - HalfProb
      /\ c[3].market = "BTTS"
      /\ c[3].prob = Max2(pB, Scale - pB)
      /\ c[3].label = (IF c[3].prob = pB THEN "Yes" ELSE "No")
      /\ c[3].edge = c[3].prob - HalfProb

\* C4 witness: a pair was returned whose top pick is the draw, the most
\* probable 1X2 outcome at those rates.
C4_Witness ==
  /\ pc = "picked"
  /\ pick.top.market = "1X2"
  /\ pick.top.label = "X"
  /\ pick.top.prob > probsSharp(lam.lh, lam.la).pH

\* The label vocabulary of each market.
LabelsOf(market) ==
  CASE market = "1X2" -> {"1", "X", "2"}
    [] market = "Over/Under 2.5" -> {"Over 2.5", "Under 2.5"}
    [] market = "BTTS" -> {"Yes", "No"}
    [] OTHER -> {}

\* C5: top and second each have a market of the three and a label from the
\* vocabulary of that market.
C5_MarketLabelVocabulary ==
  pc = "picked" =>
    /\ pick.top.market \in Markets
    /\ pick.top.label \in LabelsOf(pick.top.market)
    /\ pick.second.market \in Markets
    /\ pick.second.label \in LabelsOf(pick.second.market)

\* C5 witness: a pair was returned with a BTTS pick and a totals pick.
C5_Witness ==
  /\ pc = "picked"
  /\ pick.top.market = "Over/Under 2.5" /\ pick.top.label = "Over 2.5"
  /\ pick.second.market = "BTTS" /\ pick.second.label = "Yes"

----------------------------------------------------------------------------
(* Properties of seedOf, leagueBaseGpm and expectedGoalsAdvanced (checked   *)
(* under Spec)                                                              *)

Estimated == pc \in {"rates", "picked"}

AliasKeys == {ALIAS[i][1] : i \in 1..Len(ALIAS)}
SeedKeys == {SEED_ELO[i][1] : i \in 1..Len(SEED_ELO)}
SeedValues == {SEED_ELO[i][2] : i \in 1..Len(SEED_ELO)}

AliasTarget(n) == ALIAS[CHOOSE i \in 1..Len(ALIAS) : ALIAS[i][1] = n][2]
SeedRating(k) == SEED_ELO[CHOOSE i \in 1..Len(SEED_ELO) : SEED_ELO[i][1] = k][2]

\* The resolution order as stated: alias if the normalized key has one, the
\* seed rating of that key if the seed table has it, else the seed rating of
\* the normalized key if the seed table has it, else 1500.
ResolvedRating(n) ==
  IF (IF n \in AliasKeys THEN AliasTarget(n) ELSE n) \in SeedKeys
  THEN SeedRating(IF n \in AliasKeys THEN AliasTarget(n) ELSE n)
  ELSE IF n \in SeedKeys THEN SeedRating(n)
  ELSE DefaultRating

\* C6: for every team name seedOf returns the rating of the resolution order
\* alias -> seed table -> seed table by the un-aliased key -> 1500.
C6_SeedOfResolutionOrder ==
  Estimated =>
    /\ seedOf(homeName) = ResolvedRating(normTeam(homeName))
    /\ seedOf(awayName) = ResolvedRating(normTeam(awayName))

\* C7: seedOf always returns a numeric rating, a value of the seed table or
\* 1500; with two empty names both sides are rated 1500 and a prediction is
\* returned.
C7_SeedOfAlwaysRating ==
  /\ Estimated =>
       /\ seedOf(homeName) \in SeedValues \cup {DefaultRating}
       /\ seedOf(awayName) \in SeedValues \cup {DefaultRating}
  /\ (Estimated /\ homeName = "" /\ awayName = "") =>
       /\ seedOf(homeName) = DefaultRating
       /\ seedOf(awayName) = DefaultRating
       /\ ~IsNaN(lam.lh) /\ ~IsNaN(lam.la)
  /\ (pc = "picked" /\ homeName = "" /\ awayName = "") =>
       pick.top.market \in Markets /\ pick.second.market \in Markets

\* The patterns of leagueBaseGpm in source order, each with its baseline.
LeaguePatterns ==
  << <<{"super lig", "süper lig"}, 2700000>>, <<{"premier"}, 2900000>>,
     <<{"la liga"}, 2600000>>, <<{"bundesliga"}, 3100000>>,
     <<{"serie a"}, 2500000>>, <<{"ligue 1"}, 2750000>>,
     <<{"eredivisie"}, 3000000>>, <<{"primeira"}, 2500000>>,
     <<{"champions league"}, 3000000>>, <<{"europa league"}, 2800000>>,
     <<{"conference league"}, 2700000>> >>

\* The positions of the patterns that the lowercased label k contains.
Matching(k) ==
  {i \in 1..Len(LeaguePatterns) : \E pat \in LeaguePatterns[i][1] : includes(k, pat)}

\* The baseline of the first matching pattern, 2.65 when there is none.
FirstMatchBaseline(k) ==
  IF Matching(k) = {} THEN 2650000
  ELSE LeaguePatterns[CHOOSE i \in Matching(k) : \A j \in Matching(k) : i <= j][2]

\* C8: leagueBaseGpm returns the baseline of the first pattern, in source
\* order, that the lowercased label contains, and 2.65 when none matches or
\* the label is empty; 'premier' and 'bundesliga' together give 2.9.
C8_LeagueFirstMatchWins ==
  Estimated =>
    /\ leagueBaseGpm(league) = FirstMatchBaseline(toLowerCase(league))
    /\ league = "" => leagueBaseGpm(league) = 2650000
    /\ (includes(toLowerCase(league), "premier")
          /\ includes(toLowerCase(league), "bundesliga"))
         => leagueBaseGpm(league) = 2900000

\* C8 witness: rates were estimated for a label that contains 'bundesliga'
\* and, after it, 'premier'.
C8_Witness ==
  /\ Estimated
  /\ league = "Bundesliga Premier"
  /\ Cardinality(Matching(toLowerCase(league))) = 2

\* C9: for every input triple both rates returned by expectedGoalsAdvanced
\* lie in [0.15, 3.2].
C9_RatesClamped ==
  Estimated =>
    /\ lam.lh >= RATE_MIN /\ lam.lh <= RATE_MAX
    /\ lam.la >= RATE_MIN /\ lam.la <= RATE_MAX

\* C10: whenever the home rating plus HOME exceeds the away rating,
\* lambdaHome > lambdaAway; in particular for Manchester City (1880) at home
\* to Liverpool (1820) in the Premier League (diff 125, baseline 2.9) and for
\* two unrated teams in an unmatched league (1500 each, diff 65, baseline 2.65).
C10_HomeFavouredWhenDiffPositive ==
  /\ (/\ Estimated
      /\ IsRating(seedOf(homeName)) /\ IsRating(seedOf(awayName))
      /\ seedOf(homeName) + HOME > seedOf(awayName))
       => lam.lh > lam.la
  /\ (/\ Estimated
      /\ homeName = "Manchester City" /\ awayName = "Liverpool"
      /\ league = "Premier League")
       => /\ seedOf(homeName) = 1880 /\ seedOf(awayName) = 1820
          /\ RatingDiff(seedOf(homeName), HOME, seedOf(awayName)) = 125
          /\ leagueBaseGpm(league) = 2900000
          /\ lam.lh > lam.la
  /\ (/\ Estimated
      /\ homeName = "UnknownTeamX" /\ awayName = "UnknownTeamY"
      /\ league = "Obscure Regional Cup")
       => /\ seedOf(homeName) = 1500 /\ seedOf(awayName) = 1500
          /\ RatingDiff(seedOf(homeName), HOME, seedOf(awayName)) = 65
          /\ leagueBaseGpm(league) = 2650000
          /\ lam.lh > lam.la

\* C10 witness: rates were estimated for a home side rated below the away
\* side by less than HOME, and the home rate is the larger.
C10_Witness ==
  /\ Estimated
  /\ homeName = "Liverpool" /\ awayName = "Manchester City"
  /\ seedOf(homeName) < seedOf(awayName)
  /\ lam.lh > lam.la

----------------------------------------------------------------------------
(* Properties of the rates and of the 1X2 probabilities made from them      *)

BothRated == IsRating(seedOf(homeName)) /\ IsRating(seedOf(awayName))

\* C11: for two teams of equal rating and any league label the rates satisfy
\* lambdaHome > lambdaAway, and whenever lambdaHome > lambdaAway the
\* sharpened 1X2 probabilities satisfy pHome > pAway.
C11_NeutralPairFavoursHome ==
  /\ (pc = "rates" /\ BothRated /\ seedOf(homeName) = seedOf(awayName))
       => lam.lh > lam.la
  /\ (pc = "rates" /\ JsGt(lam.lh, lam.la))
       => \E p \in {probsSharp(lam.lh, lam.la)} : p.pH > p.pA

\* C11 witness: rates were estimated for two unrated teams, and the sharpened
\* home probability exceeds the away probability.
C11_Witness ==
  /\ pc = "rates"
  /\ homeName = "UnknownTeamX" /\ awayName = "UnknownTeamY"
  /\ league = "German Bundesliga"
  /\ seedOf(homeName) = seedOf(awayName)
  /\ \E p \in {probsSharp(lam.lh, lam.la)} : p.pH > p.pA

\* The rates of a fixture with the tilt applied (TRUE) or left out (FALSE).
RatesIf(tilt) ==
  ratesWith(leagueBaseGpm(league),
            splitOf(RatingDiff(seedOf(homeName), HOME, seedOf(awayName))),
            RatingDiff(seedOf(homeName), HOME, seedOf(awayName)), tilt)

\* C12: the tilt (lambdaHome * 1.10, lambdaAway * 0.90, before clamping) is
\* applied exactly when homeRating - awayRating >= STRONG_DIFF_TILT, the gap
\* taken without the home bonus: at 220 and not at 219, and never for a
\* stronger away side.
C12_TiltExactlyAtThreshold ==
  /\ (Estimated /\ BothRated)
       => /\ lam = RatesIf(seedOf(homeName) - seedOf(awayName) >= STRONG_DIFF_TILT)
          /\ seedOf(homeName) < seedOf(awayName) => lam = RatesIf(FALSE)
  /\ STRONG_DIFF_TILT = 220
  /\ tilted(220) /\ ~tilted(219) /\ ~tilted(0 - 220)

\* C12 witness: Bayern Munich (1900) at home to Fenerbahce (1680), a gap of
\* exactly 220: the rates are the tilted ones and differ from the untilted.
C12_Witness ==
  /\ Estimated
  /\ homeName = "Bayern Munich" /\ awayName = "Fenerbahce"
  /\ seedOf(homeName) - seedOf(awayName) = STRONG_DIFF_TILT
  /\ lam = RatesIf(TRUE)
  /\ lam # RatesIf(FALSE)

\* Three quotients, each rounded down to a millionth, may add up to as much
\* as this many millionths less than 1.
SumTolerance == 3

InUnit(x) == x >= 0 /\ x <= Scale

IsDistribution(p) ==
  /\ InUnit(p.pH) /\ InUnit(p.pD) /\ InUnit(p.pA)
  /\ Abs(p.pH + p.pD + p.pA - Scale) <= SumTolerance

\* The mass of the truncated score grid before it is renormalized.
GridMassOf(ph, pa) ==
  GridSum(ph, pa, CAP, CAP, "H") + GridSum(ph, pa, CAP, CAP, "D")
    + GridSum(ph, pa, CAP, CAP, "A")

GridMass(lh, la) ==
  GridMassOf([i \in 0..CAP |-> poisPmf(lh, i)], [j \in 0..CAP |-> poisPmf(la, j)])

\* C13: for all rates in [0.15, 3.2] the three 1X2 probabilities are each in
\* [0, 1] and sum to 1, as returned by probs1X2 and as returned by sharpen3.
C13_ProbabilitiesSumToOne ==
  \E p \in {probs1X2(lam.lh, lam.la, CAP)} :
    /\ IsDistribution(p)
    /\ \E q \in {sharpened(p, SHARPEN_TAU_1X2)} : IsDistribution(q)

\* C13 witness: a pick was made at the rates 3.2 and 3.2, where the truncated
\* grid holds visibly less than the whole mass, and the probabilities
\* returned sum to 1.
C13_Witness ==
  /\ pc = "picked"
  /\ lam.lh = RATE_MAX /\ lam.la = RATE_MAX
  /\ GridMass(lam.lh, lam.la) < Scale - SumTolerance
  /\ IsDistribution(probs1X2(lam.lh, lam.la, CAP))

\* Values of SHARPEN_TAU_1X2 above 1: the default and two larger ones.
SharpenTaus == {SHARPEN_TAU_1X2, 1500000, 2000000}

\* q ranks the three outcomes as p does.
SameOrder(p, q) ==
  /\ p.pH >= p.pD => q.pH >= q.pD
  /\ p.pD >= p.pH => q.pD >= q.pH
  /\ p.pH >= p.pA => q.pH >= q.pA
  /\ p.pA >= p.pH => q.pA >= q.pH
  /\ p.pD >= p.pA => q.pD >= q.pA
  /\ p.pA >= p.pD => q.pA >= q.pD

\* C14: sharpening with tau = 1.25 (any tau > 1) keeps the order of the three
\* outcomes, so the selected 1X2 label is unchanged, and the largest
\* probability after sharpening is at least as large as before.
C14_SharpenFavoursFavourite ==
  \E p \in {probs1X2(lam.lh, lam.la, CAP)} :
    \A tau \in SharpenTaus :
      \E q \in {sharpened(p, tau)} :
        /\ SameOrder(p, q)
        /\ best1Of(q).label = best1Of(p).label
        /\ Max3(q.pH, q.pD, q.pA) >= Max3(p.pH, p.pD, p.pA)

\* C14 witness: the 1X2 candidate is the top pick, its label is the one the
\* unsharpened probabilities select, and its probability exceeds the largest
\* unsharpened one.
C14_Witness ==
  /\ pc = "picked"
  /\ pick.top.market = "1X2"
  /\ \E p \in {probs1X2(lam.lh, lam.la, CAP)} :
       /\ pick.top.label = best1Of(p).label
       /\ pick.top.prob > Max3(p.pH, p.pD, p.pA)

\* C15: sharpening affects the 1X2 market only: for fixed rates, two runs of
\* choiceFrom that differ only in the sharpening exponent produce the same
\* Over/Under 2.5 candidate and the same BTTS candidate.
C15_SharpenOnly1X2 ==
  \E c1 \in {candidatesAt(lam.lh, lam.la, SHARPEN_TAU_1X2)} :
    \A tau \in SharpenTaus \ {SHARPEN_TAU_1X2} :
      \E c2 \in {candidatesAt(lam.lh, lam.la, tau)} :
        /\ c1[2].market = "Over/Under 2.5" /\ c1[2] = c2[2]
        /\ c1[3].market = "BTTS" /\ c1[3] = c2[3]

\* C15 witness: a pick was made from candidates whose 1X2 entry changes with
\* the exponent while the other two do not.
C15_Witness ==
  /\ pc = "picked"
  /\ \E c1 \in {candidatesAt(lam.lh, lam.la, SHARPEN_TAU_1X2)} :
       \E c2 \in {candidatesAt(lam.lh, lam.la, 2 * Scale)} :
         /\ pick = topSecond(sortByEdge(c1))
         /\ c1[1] # c2[1]
         /\ c1[2] = c2[2] /\ c1[3] = c2[3]

\* Two ways of computing one value in millionths may differ by this much.
RoundingSlack == 2

Near(x, y) == Abs(x - y) <= RoundingSlack

\* P(Poisson(t) <= 2) = e^-t (1 + t + t^2 / 2), by direct summation.
PoissonAtMost2(t) == MulPos(ExpNeg(t), Scale + t + MulPos(t, t) \div 2)

\* C16: for all rates in [0.15, 3.2], pUnder2_5 is the sum of the Poisson
\* probabilities of 0, 1 and 2 goals at the rate lh + la, pOver2_5 is
\* 1 - pUnder2_5, pBTTSYes is 1 - (e^-lh + e^-la - e^-(lh+la)), which is
\* (1 - e^-lh)(1 - e^-la), pBTTSNo is 1 - pBTTSYes, and all four lie in [0,1];
\* at lh = la = 1.25 pUnder2_5 is P(Poisson(2.5) <= 2) = 0.543813.
C16_GoalsMarketsWellFormed ==
  /\ \E pU \in {pUnder25(lam.lh, lam.la)} :
       /\ Near(pU, PoissonAtMost2(lam.lh + lam.la))
       /\ InUnit(pU) /\ InUnit(Scale - pU)
       /\ (lam.lh = 1250000 /\ lam.la = 1250000) => Near(pU, 543813)
       /\ pc = "picked" =>
            \A c \in {pick.top, pick.second} :
              c.market = "Over/Under 2.5" => c.prob = Max2(pU, Scale - pU)
  /\ \E pB \in {pBothScore(lam.lh, lam.la)} :
       /\ pB = Scale - (ExpNeg(lam.lh) + ExpNeg(lam.la) - ExpNeg(lam.lh + lam.la))
       /\ Near(pB, MulPos(Scale - ExpNeg(lam.lh), Scale - ExpNeg(lam.la)))
       /\ InUnit(pB) /\ InUnit(Scale - pB)
       /\ pc = "picked" =>
            \A c \in {pick.top, pick.second} :
              c.market = "BTTS" => c.prob = Max2(pB, Scale - pB)

\* C16 witness: a pick was made at lh = la = 1.25 and holds the totals
\* candidate with the probability of at most two goals at the rate 2.5.
C16_Witness ==
  /\ pc = "picked"
  /\ lam.lh = 1250000 /\ lam.la = 1250000
  /\ \E c \in {pick.top, pick.second} :
       /\ c.market = "Over/Under 2.5" /\ c.label = "Under 2.5"
       /\ Near(c.prob, PoissonAtMost2(lam.lh + lam.la))

\* The place of a market in the result of choiceFrom: 1 for top, 2 for
\* second, 3 for the candidate that is returned in neither.
PlaceOf(market) ==
  IF pick.top.market = market THEN 1
  ELSE IF pick.second.market = market THEN 2 ELSE 3

\* C19: when two candidates have exactly equal edge, the one earlier in the
\* construction order 1X2, Over/Under 2.5, BTTS is ranked ahead of the other.
C19_TiesKeepConstructionOrder ==
  pc = "picked" =>
    \E c \in {candidates(lam.lh, lam.la)} :
      \A i, j \in 1..3 :
        (i < j /\ c[i].edge = c[j].edge)
          => PlaceOf(c[i].market) < PlaceOf(c[j].market)

\* C19 witness: a pick whose 1X2 and totals candidates have the same edge,
\* the largest of the three, with 1X2 on top and the totals second.
C19_Witness ==
  /\ pc = "picked"
  /\ pick.top.edge = pick.second.edge
  /\ pick.top.market = "1X2"
  /\ pick.second.market = "Over/Under 2.5"
  /\ \E c \in {candidates(lam.lh, lam.la)} : c[3].edge < c[1].edge

\* C20: at lambdaHome = lambdaAway = 1.325 every candidate's edge is below
\* 0.08, so the top pick has edge < 0.08 and the note 'low-edge-fallback'.
C20_BalancedMatchLowEdge ==
  (pc = "picked" /\ lam.lh = 1325000 /\ lam.la = 1325000) =>
    /\ \E c \in {candidates(lam.lh, lam.la)} :
         \A i \in 1..3 : c[i].edge < EDGE_MIN
    /\ EDGE_MIN = 80000 /\ SHARPEN_TAU_1X2 = 1250000
    /\ pick.top.edge < EDGE_MIN
    /\ pick.top.note = "low-edge-fallback"

\* C20 witness: the pick made at the rates 1.325 and 1.325 carries the note.
C20_Witness ==
  /\ pc = "picked"
  /\ lam.lh = 1325000 /\ lam.la = 1325000
  /\ pick.top.note = "low-edge-fallback"

----------------------------------------------------------------------------
(* Properties of repeated predictions (checked under SpecCalls)             *)

SameFixture(a, b) ==
  a.home = b.home /\ a.away = b.away /\ a.league = b.league

----------------------------------------------------------------------------
(* Properties of the tables (checked under SpecServer)                      *)

\* C18: no operation changes the alias table or the seed-rating table: after
\* any sequence of predictions, cache refreshes and HTTP requests ALIAS and
\* SEED_ELO hold exactly the entries they had at startup.
C18_TablesNeverChange ==
  /\ aliasTable = ALIAS
  /\ seedTable = SEED_ELO

\* C18 witness: after the boot warm-up and a request made on the next day,
\* the cache holds the predictions of a refresh of that day, and the tables
\* are as at startup.
C18_Witness ==
  /\ pc = "serving"
  /\ today = Days[2]
  /\ cache.date = today
  /\ Len(cache.rows) = 2
  /\ cache.rows[1].prediction # ""
  /\ RunsTotal = 0
  /\ aliasTable = ALIAS /\ seedTable = SEED_ELO

----------------------------------------------------------------------------
(* Properties of the endpoints and of the cache (checked under SpecServer)  *)

\* C21: GET /api/fixtures responds with the JSON of the cached fixtures:
\* whenever a request for /api/fixtures is answered, the answer has status
\* 200 and its body is the cache object as warmCache last stored it.
C21_ApiFixturesServesCache ==
  [][(res' # res /\ res'.path = "/api/fixtures")
       => (res'.status = 200 /\ res'.body = cache')]_vars

\* Both prediction strings of the row are non-empty.
Predicted(r) == r.prediction # "" /\ r.altPrediction # ""

C24_TodayNeverServesAnotherDay ==
  [][(res' # res /\ res'.path = "/api/today") =>
       /\ res'.status = 200
       /\ res'.body = cache'
       /\ res'.body.date = res'.now
       /\ res'.body.savedAt # Null
       /\ res'.awaited => RunsTotal' = RunsTotal - 1
       /\ ~res'.awaited =>
            /\ cache.date = today /\ res'.now = today
            /\ inflight' = inflight /\ cache' = cache]_vars

\* C24 witness: a request of the second day found the cache of the first
\* day's boot refresh, awaited its own refresh and was answered with rows of
\* the second day.
C24_Witness ==
  /\ pc = "serving"
  /\ res.path = "/api/today" /\ res.awaited
  /\ res.now = Days[2] /\ res.body.date = Days[2]
  /\ Len(res.body.rows) = 2
  /\ res.body.rows[1].kickoff = "2025-06-02 11:30"

\* The step completes a refresh.
RunCompletes == RunsTotal' = RunsTotal - 1

\* The step completes a refresh that was started on the given date.
RunOfDateCompletes(date) ==
  \E run \in RunKinds : run.date = date /\ inflight'[run] = inflight[run] - 1

\* The cache is saved for today and holds no rows.
SavedEmptyToday ==
  cache.savedAt # Null /\ cache.date = today /\ cache.rows = <<>>

\* A request for /api/today that finds such a cache is answered from it,
\* with no refresh started.
AnsweredFromEmptyCache ==
  (ApiToday /\ SavedEmptyToday) =>
    /\ inflight' = inflight /\ cache' = cache
    /\ res' = jsonOfCache(cache, today, FALSE)

\* C25 as stated: every completion of warmCache, after a successful or a
\* failed fetch, leaves the cache with date equal to today's local date and
\* a non-null savedAt; after a failed fetch the rows are empty; a later
\* request of the same date is answered from that cache without a fetch.
C25_CompletionStampsToday ==
  [][/\ RunCompletes =>
          /\ cache'.date = today /\ cache'.savedAt # Null /\ cache'.error = Null
     /\ (\E run \in RunKinds : FetchFails(run)) =>
          /\ cache'.rows = <<>> /\ cache'.count = 0
     /\ AnsweredFromEmptyCache]_vars

\* C25 as amended: every completion leaves the cache with the local date on
\* which that refresh started and a non-null savedAt; after a failed fetch
\* the rows are empty; a request made while that date is still the local
\* date is answered from that cache without a fetch.
C25_CompletionStampsStartDate ==
  [][/\ RunCompletes =>
          /\ RunOfDateCompletes(cache'.date)
          /\ cache'.savedAt = today /\ cache'.savedAt # Null /\ cache'.error = Null
     /\ (\E run \in RunKinds : FetchFails(run)) =>
          /\ cache'.rows = <<>> /\ cache'.count = 0
     /\ AnsweredFromEmptyCache]_vars

\* C25 witness: a refresh started on the first day ended after midnight
\* with no rows; the cache carries the first day's date, and the last
\* request answered without waiting got an empty cache of its own day.
C25_Witness ==
  /\ cache.date = Days[1] /\ cache.savedAt = Days[2] /\ today = Days[2]
  /\ cache.rows = <<>> /\ cache.count = 0
  /\ res.path = "/api/today" /\ ~res.awaited
  /\ res.body.rows = <<>> /\ res.body.date = res.now

\* The fields of the cache object c agree with each other as those of one
\* refresh do: count is the number of rows, every kickoff is of the day the
\* object was saved on, and the date is not later than that day.
FromOneRefresh(c) ==
  \/ c = EmptyCache
  \/ /\ c.savedAt # Null /\ c.error = Null /\ c.source = "ESPN-only"
     /\ c.count = Len(c.rows)
     /\ \A i \in 1..Len(c.rows) : SubSeq(c.rows[i].kickoff, 1, 10) = c.savedAt
     /\ \E i, j \in 1..Len(Days) : i <= j /\ c.date = Days[i] /\ c.savedAt = Days[j]

\* C26: refreshes are not coordinated but each replaces the cache whole: at
\* any time the date, rows, count and savedAt of the cache are those of a
\* single refresh; the cache changes only when a refresh completes, and is
\* then the result of the refresh that completed in that step, whatever
\* other refreshes are running or have completed before.
C26_CacheReplacedWhole ==
  [][/\ FromOneRefresh(cache)
     /\ FromOneRefresh(cache')
     /\ RunCompletes =>
          /\ RunOfDateCompletes(cache'.date)
          /\ cache'.savedAt = today
     /\ ~RunCompletes => cache' = cache]_vars

\* C26 witness: a refresh started on the first day is still waiting for its
\* page while the cache holds the two rows of a refresh that started and
\* completed on the second day.
C26_Witness ==
  /\ inflight[[date |-> Days[1], waiter |-> FALSE]] = 1
  /\ RunsTotal = 1
  /\ cache.date = Days[2] /\ cache.savedAt = Days[2]
  /\ cache.count = 2 /\ Len(cache.rows) = 2

----------------------------------------------------------------------------
(* Properties of the rows a refresh stores (checked under SpecRows)         *)

\* The index of the first row of out that has the key of r.
FirstWithKey(out, r) ==
  CHOOSE i \in 1..Len(out) :
    /\ keyOf(out[i]) = keyOf(r)
    /\ \A j \in 1..(i - 1) : keyOf(out[j]) # keyOf(r)

\* C27: the rows of the cache hold no two rows with the same league, home,
\* away and kickoff; each is the first of the parsed rows with its key; the
\* rows are in ascending order of the kickoff string; the filters have only
\* removed rows, so the order stands and count is the number of rows.
C27_RowsUniqueAndOrdered ==
  cache.savedAt # Null =>
    /\ \A i, j \in 1..Len(cache.rows) :
         i # j => keyOf(cache.rows[i]) # keyOf(cache.rows[j])
    /\ \A i \in 1..Len(cache.rows) :
         /\ \E k \in 1..Len(parsed) : keyOf(parsed[k]) = keyOf(cache.rows[i])
         /\ cache.rows[i] = parsed[FirstWithKey(parsed, cache.rows[i])]
    /\ \A i \in 1..(Len(cache.rows) - 1) :
         ~KickoffBefore(cache.rows[i + 1].kickoff, cache.rows[i].kickoff)
    /\ cache.count = Len(cache.rows)

\* C27 witness: the page listed one fixture first and third and, between
\* them, one that kicks off earlier; the cache holds the earlier one first
\* and the repeated fixture once.
C27_Witness ==
  /\ cache.savedAt # Null
  /\ Len(parsed) = 3
  /\ keyOf(parsed[1]) = keyOf(parsed[3])
  /\ KickoffBefore(parsed[2].kickoff, parsed[1].kickoff)
  /\ Len(cache.rows) = 2
  /\ cache.rows[1] = parsed[2]
  /\ cache.rows[2] = parsed[1]

----------------------------------------------------------------------------
(* Symmetry of the markets in the two rates (checked under SpecChoice)      *)

\* p and q give the same draw probability and each other's home and away
\* probabilities.
Exchanged(p, q) == q.pH = p.pA /\ q.pA = p.pH /\ q.pD = p.pD

\* C23: probs1X2(a, b) and probs1X2(b, a) have pH and pA exchanged and the
\* same pD, sharpen3 preserves the exchange, and the probabilities of under
\* 2.5 goals and of both teams scoring are the same for (a, b) and (b, a).
C23_MarketsSymmetricInRates ==
  ~IsNaN(lam.lh) =>
    /\ \E p \in {probs1X2(lam.lh, lam.la, CAP)} :
         \E q \in {probs1X2(lam.la, lam.lh, CAP)} :
           /\ Exchanged(p, q)
           /\ Exchanged(sharpened(p, SHARPEN_TAU_1X2), sharpened(q, SHARPEN_TAU_1X2))
    /\ pUnder25(lam.lh, lam.la) = pUnder25(lam.la, lam.lh)
    /\ pBothScore(lam.lh, lam.la) = pBothScore(lam.la, lam.lh)

\* C23 witness: a pick was made for unequal rates whose home win is more
\* likely than the away win, so that the exchange changes the triple.
C23_Witness ==
  /\ pc = "picked"
  /\ lam.lh > lam.la
  /\ \E p \in {probsSharp(lam.lh, lam.la)} : p.pH > p.pA /\ p.pA > 0
  /\ pick.top.market = "1X2" /\ pick.top.label = "1"

\* The label of the first of '1', 'X', '2' whose probability is the highest.
EarliestBest(p) ==
  IF p.pH = Max3(p.pH, p.pD, p.pA) THEN "1"
  ELSE IF p.pD = Max3(p.pH, p.pD, p.pA) THEN "X"
  ELSE "2"

\* C28: ties inside a market.  Equal probabilities of over and under 2.5
\* goals give the candidate 'Over 2.5'; a probability of exactly 0.5 of both
\* teams scoring gives 'Yes'; of several 1X2 outcomes that share the highest
\* sharpened probability the earliest in the order '1', 'X', '2' is taken.
C28_TiesInsideAMarket ==
  ~IsNaN(lam.lh) =>
    \E cand \in {candidates(lam.lh, lam.la)} :
      /\ pUnder25(lam.lh, lam.la) = Scale - pUnder25(lam.lh, lam.la)
           => cand[2].label = "Over 2.5" /\ cand[2].prob = HalfProb
      /\ pBothScore(lam.lh, lam.la) = HalfProb
           => cand[3].label = "Yes" /\ cand[3].prob = HalfProb
      /\ cand[1].label = EarliestBest(probsSharp(lam.lh, lam.la))

\* C28 witness: a pick was made at rates for which over and under 2.5 goals
\* are equally likely, and the candidate of that market is 'Over 2.5'.
C28_Witness ==
  /\ pc = "picked"
  /\ pUnder25(lam.lh, lam.la) = HalfProb
  /\ candidates(lam.lh, lam.la)[2].label = "Over 2.5"
  /\ candidates(lam.lh, lam.la)[2].edge = 0

\* Rates at which both teams score with probability 0.5 exactly.
C28_BothScoreTied ==
  /\ pc = "picked"
  /\ pBothScore(lam.lh, lam.la) = HalfProb
  /\ candidates(lam.lh, lam.la)[3].label = "Yes"

\* Rates at which home win and away win share the highest probability.
C28_HomeAwayTied ==
  /\ pc = "picked"
  /\ \E p \in {probsSharp(lam.lh, lam.la)} : p.pH = p.pA /\ p.pH > p.pD
  /\ candidates(lam.lh, lam.la)[1].label = "1"

----------------------------------------------------------------------------
(* Properties of the edges (checked under Spec)                             *)

\* C29: the edge of each of the three candidates is non-negative, and so
\* are top.edge and second.edge; Math.max(0, edge) changes neither; and
\* primaryEdgePct and altEdgePct are integers from 0 to 67.
C29_EdgesNonNegative ==
  pc = "picked" =>
    /\ \E cand \in {candidates(lam.lh, lam.la)} :
         \A i \in 1..Len(cand) : JsGe(cand[i].edge, 0)
    /\ JsGe(pick.top.edge, 0) /\ JsGe(pick.second.edge, 0)
    /\ MathMax(0, pick.top.edge) = pick.top.edge
    /\ MathMax(0, pick.second.edge) = pick.second.edge
    /\ edgePct(pick.top.edge) \in 0..67
    /\ edgePct(pick.second.edge) \in 0..67

\* diff = (rh + HOME) - ra of the fixture.
DiffOfFixture == RatingDiff(seedOf(homeName), HOME, seedOf(awayName))

\* C30: the clamp of the home share to [0.36, 0.64] never changes the value:
\* the share equals 0.5 + 0.12 tanh(diff / 650) as computed, which for every
\* numeric diff lies strictly between 0.38 and 0.62.
C30_SplitClampNeverActive ==
  \E diff \in {DiffOfFixture} :
    /\ splitOf(diff) = splitRaw(diff)
    /\ ~IsNaN(diff) => (splitRaw(diff) > 380000 /\ splitRaw(diff) < 620000)
    /\ (Estimated /\ ~IsNaN(diff)) =>
         lam = ratesWith(leagueBaseGpm(league), splitRaw(diff), diff,
                         tilted(RatingDiff(seedOf(homeName), 0, seedOf(awayName))))

\* C30 witness: the rates were computed for the widest gap of the table, the
\* top-rated side at home to an unrated one, where the share is furthest
\* from one half.
C30_Witness ==
  /\ pc = "picked"
  /\ homeName = "Bayern Munich" /\ awayName = "UnknownTeamX"
  /\ league = "German Bundesliga"
  /\ DiffOfFixture = 465
  /\ splitOf(DiffOfFixture) > 570000
  /\ lam.lh > lam.la

====
